---- MODULE Spec2Model ----
(***************************************************************************)
(* Model of strategy.py: BollingerBandJohansenStrategy, and after it       *)
(* BuyAndHoldStrategy.                                                     *)
(*                                                                         *)
(* One action is one call of calculate_signals, the basket search it may   *)
(* end with included; Init is the strategy after __init__.  The data       *)
(* provider (bars), the cointegration oracle (generate_hedge_ratio) and    *)
(* the stationarity oracle (is_stationary) are external: their answers are *)
(* inputs drawn from small sets.  Prices and weights are integers;         *)
(* thresholds, and the z-scores of the stubbed state machine, are in       *)
(* tenths.                                                                 *)
(***************************************************************************)
EXTENDS Integers, Sequences, FiniteSets, TLC

(* ----------------------------- bounds ---------------------------------- *)
\* tickers of the universe beyond the 12 a basket needs
ExtraTickers == 1
\* market updates handled in one run
MaxUpdates == 3
\* oracle tables are favourable to the baskets that differ from the oldest
\* tickers in at least k places; k is at most this (or no basket is)
MaxDisplaced == 2
\* updates with a stubbed z-score (specification ZSpec)
MaxZSteps == 5
\* market updates a BuyAndHoldStrategy handles in one run
MaxBuyHoldUpdates == 3

(* ----------------------- program constants ----------------------------- *)
\* combinations(tickers, 12)
BasketSize == 12

NumTickers == BasketSize + ExtraTickers

\* bars.sort_oldest(): the universe, oldest history first; a ticker is
\* named by its rank in that order.
SortOldest == [i \in 1..NumTickers |-> i]

(* ------------------------- arithmetic helpers -------------------------- *)
RECURSIVE SumSeq(_)
SumSeq(s) == IF s = <<>> THEN 0 ELSE s[1] + SumSeq(Tail(s))

\* utils.dot on two vectors
Dot(a, b) == SumSeq([i \in 1..Len(a) |-> a[i] * b[i]])

\* utils.dot on a matrix (rows = timestamps) and a vector: one value a row
DotRows(m, w) == [j \in 1..Len(m) |-> Dot(m[j], w)]

\* statistics.mean / statistics.stdev, kept exact: with n values, sum S and
\* sum of squares SS, n*(x - mean) = n*x - S and n*(n-1)*stdev^2 = n*SS - S^2.
Deviation(series, x) == Len(series) * x - SumSeq(series)
Spread(series) ==
    Len(series) * SumSeq([i \in 1..Len(series) |-> series[i] * series[i]])
        - SumSeq(series) * SumSeq(series)

\* stdev raises StatisticsError with fewer than two points
StdevRaises(series) == Len(series) < 2
\* rolling_std = 0: the division of line 186 has no defined quotient
ZeroStd(series) == Len(series) >= 2 /\ Spread(series) = 0
ZDefined(series) == Len(series) >= 2 /\ Spread(series) > 0

\* |zscore| >= t/10 for a threshold t >= 0 in tenths, zscore as in line 186
ZMagnitudeGe(series, x, t) ==
    100 * Deviation(series, x) * Deviation(series, x) * (Len(series) - 1)
        >= t * t * Len(series) * Spread(series)
\* zscore >= t/10
ZScoreGe(series, x, t) ==
    Deviation(series, x) >= 0 /\ ZMagnitudeGe(series, x, t)
\* zscore <= -t/10
ZScoreLe(series, x, t) ==
    Deviation(series, x) <= 0 /\ ZMagnitudeGe(series, x, t)

(* ----------------------- itertools.combinations ------------------------ *)
\* The generator's position is the index tuple it yielded last (<<>> before
\* the first).  First tuple: 1..r, when r <= n.
FirstCombo(r) == [i \in 1..r |-> i]

\* positions that can still advance
Movable(ind, n) == {i \in 1..Len(ind) : ind[i] # i + n - Len(ind)}
\* a faulty generator: the leftmost position that can advance is advanced
Rightmost_Leftmost(M) == CHOOSE k \in M : \A l \in M : k <= l
Rightmost(M) == CHOOSE k \in M : \A l \in M : l <= k

HasNextCombo(ind, n, r) ==
    IF ind = <<>> THEN r <= n ELSE Movable(ind, n) # {}

\* the tuple after ind: the rightmost position i that can advance does, and
\* the positions after it follow it
Advance(ind, i) ==
    [j \in 1..Len(ind) |-> IF j < i THEN ind[j] ELSE ind[i] + 1 + (j - i)]
NextCombo(ind, n, r) ==
    IF ind = <<>> THEN FirstCombo(r)
    ELSE Advance(ind, Rightmost(Movable(ind, n)))

\* the tuple of tickers at the positions of an index tuple
PortOf(ind) == [i \in 1..Len(ind) |-> SortOldest[ind[i]]]

\* every tuple combinations(range(n), r) has to yield, and the order it has
\* to yield them in: the r-element subsets, each written in increasing
\* order, compared lexicographically
Ascending(S) ==
    [i \in 1..Cardinality(S) |->
        CHOOSE e \in S : Cardinality({f \in S : f < e}) = i - 1]
AllCombos ==
    {Ascending(S) :
        S \in {T \in SUBSET (1..NumTickers) : Cardinality(T) = BasketSize}}
LexLess(a, b) ==
    \E i \in 1..Len(a) :
        /\ a[i] < b[i]
        /\ \A j \in 1..(i - 1) : a[j] = b[j]
LexRank(c) == 1 + Cardinality({d \in AllCombos : LexLess(d, c)})
NumCombos == Cardinality(AllCombos)

(* --------------------------- external data ----------------------------- *)
\* The data and the oracles' answers for a basket depend on the number of
\* places in which it differs from the oldest tickers.
Displaced(port) ==
    Cardinality({i \in 1..Len(port) : port[i] # SortOldest[i]})

\* bars.generate_train_set('Close') for a basket: rows are timestamps,
\* columns the basket members in basket order; every close is 2.
TrainRows(port, d) ==
    [j \in 1..(1 + (d % 2)) |-> [i \in 1..Len(port) |-> 2]]
TrainSet(port) == TrainRows(port, Displaced(port))

\* generate_hedge_ratio(prices) either raises LinAlgError or returns the
\* trace and maximum-eigenvalue statistics (entry 1 is the one for rank 0),
\* the rows of their critical values at 90/95/99%, and the eigenvectors, of
\* which evec0 is results.evec[:, 0], one entry per column of prices.
LinAlgError == "LinAlgError"
CritValues == <<<<1, 2, 3>>, <<0, 1, 2>>>>
HighStat == <<3, 0>>
LowStat == <<2, 9>>
Results(port, d, lr1, lr2, stationary) ==
    [answer |-> "results", lr1 |-> lr1, lr2 |-> lr2,
     cvt |-> CritValues, cvm |-> CritValues,
     evec0 |-> [i \in 1..Len(TrainRows(port, d)[1]) |-> 2 - (d % 2)],
     \* what is_stationary answers for dot(prices, evec0)
     stationary |-> stationary]

\* the four ways a candidate falls short
Unfavourable(port, d) ==
    IF d % 4 = 0 THEN [answer |-> LinAlgError]
    ELSE IF d % 4 = 1 THEN Results(port, d, HighStat, HighStat, FALSE)
    ELSE IF d % 4 = 2 THEN Results(port, d, LowStat, HighStat, TRUE)
    ELSE Results(port, d, HighStat, LowStat, TRUE)

\* The oracle table `from` gives the oracles' answers for every candidate:
\* favourable to those that differ from the oldest tickers in at least
\* `from` places (to none, when from > BasketSize).
AnswerAt(from, port, d) ==
    IF d >= from
    THEN Results(port, d, HighStat, HighStat, TRUE)
    ELSE Unfavourable(port, d)
OracleAnswer(from, port) == AnswerAt(from, port, Displaced(port))
AcceptFroms == (0..MaxDisplaced) \cup {BasketSize + 1}

\* the bars the data provider serves, as <<close, split ratio, dividend>>:
\* plain bars, a split in two, and a dividend as large as the close
BarKinds == {<<1, 1, 0>>, <<2, 1, 0>>, <<1, 2, 0>>, <<2, 1, 2>>}

\* bars.get_latest_bars(s, N=1)[0] for every ticker on one date: all close
\* at c; a split of ratio sp, with a dividend of dv, hits the tickers of
\* odd rank.
Bar(s, d, c, sp, dv) ==
    [Symbol |-> s, Date |-> d, Close |-> c,
     Split |-> IF s % 2 = 1 THEN sp ELSE 1,
     Dividend |-> IF s % 2 = 1 THEN dv ELSE 0]
Feeds(d) ==
    {[s \in 1..NumTickers |-> Bar(s, d, k[1], k[2], k[3])] : k \in BarKinds}

(* ------------------------------- state --------------------------------- *)
VARIABLES
    pc,               \* "idle"; "exited" after sys.exit; "crashed" after an
                      \* exception left calculate_signals; "searching" in a
                      \* search that does not end
    enter, exit,      \* self.enter, self.exit, in tenths
    current_date,     \* self.current_date
    hedge_ratio,      \* self.hedge_ratio
    long, short,      \* self.long, self.short
    portfolio_prices, \* self.portfolio_prices
    symbol_list,      \* self.bars.symbol_list, the provider's active basket
    events,           \* records put on self.events by the latest calculate_signals
    comb,             \* the tuple the combinations generator yielded last
    tried,            \* candidates the latest search passed to update_symbol_list
    notStationary,    \* "not stationary" lines (line 144) the latest search logged
    failedSeen,       \* the latest search logged a LinAlgError (line 133)
    table,            \* the oracle table the latest search read (its `from`)
    basketBefore,     \* bars.symbol_list when the latest update began
    sinceSelect,      \* market updates begun since the latest search returned
    selCalls,         \* calls of _find_stationary_portfolio by the latest update
    nUpdates,         \* market updates begun so far
    rule,             \* branch of lines 183-203 the latest update took
    zlog,             \* the stubbed z-scores fed so far, each with the position
                      \* and the batch it led to (specification ZSpec)
    strategy,         \* the class that was instantiated
    event_type,       \* event.type of the latest call of calculate_signals
    bars,             \* what the provider's get_latest_bars answers since
                      \* the latest market update began
    fed,              \* those answers, for each market update begun since
                      \* the latest search returned
    entered,          \* a LONG or SHORT batch was put for the active basket
                      \* and no EXIT batch since
    bought,           \* self.bought of BuyAndHoldStrategy
    longs             \* LONG records BuyAndHoldStrategy has put so far, by symbol

vars == <<pc, enter, exit, current_date, hedge_ratio, long, short,
          portfolio_prices, symbol_list, events, comb, tried, notStationary,
          failedSeen, table, basketBefore, sinceSelect, selCalls, nUpdates,
          rule, zlog, strategy, event_type, bars, fed, entered, bought,
          longs>>

\* the two strategies
Bollinger == "BollingerBandJohansenStrategy"
BuyAndHold == "BuyAndHoldStrategy"

(* --------------------------- basket selector --------------------------- *)
\* lines 137-139: both statistics reach the last critical value of their
\* first row and the synthetic training series is stationary
\* a faulty test: the statistics are compared to the first critical value
Accepts_FirstColumn(res) ==
    /\ res.lr1[1] >= res.cvt[1][1]
    /\ res.lr2[1] >= res.cvm[1][1]
    /\ res.stationary

Accepts(res) ==
    /\ res.lr1[1] >= res.cvt[1][Len(res.cvt[1])]
    /\ res.lr2[1] >= res.cvm[1][Len(res.cvm[1])]
    /\ res.stationary

\* The search keeps, in a record s, what it has changed so far and how it
\* stands: "searching", "returned" (line 143) with hedge_ratio, or "exited"
\* (line 146).  `from` names the oracle table it reads.

\* a faulty body: the series of an accepted candidate is not kept
Evaluate_Unseeded(s, prices, res) ==
    IF res.answer = LinAlgError
    THEN [s EXCEPT !.failedSeen = TRUE, !.notStationary = @ + 1]
    ELSE IF Accepts(res)
    THEN [s EXCEPT !.hedge_ratio = res.evec0, !.outcome = "returned"]
    ELSE [s EXCEPT !.portfolio_prices = DotRows(prices, res.evec0),
                   !.notStationary = @ + 1]

\* a faulty body: a failure of the oracle ends the search
Evaluate_FailureFatal(s, prices, res) ==
    IF res.answer = LinAlgError
    THEN [s EXCEPT !.failedSeen = TRUE, !.outcome = "exited"]
    ELSE IF Accepts(res)
    THEN [s EXCEPT !.portfolio_prices = DotRows(prices, res.evec0),
                   !.hedge_ratio = res.evec0,
                   !.outcome = "returned"]
    ELSE [s EXCEPT !.portfolio_prices = DotRows(prices, res.evec0),
                   !.notStationary = @ + 1]

\* lines 130-144 for the candidate s.symbol_list, its training matrix and
\* the oracle's answer for it
Evaluate(s, prices, res) ==
    IF res.answer = LinAlgError
    THEN [s EXCEPT !.failedSeen = TRUE, !.notStationary = @ + 1]
    ELSE IF Accepts(res)
    THEN [s EXCEPT !.portfolio_prices = DotRows(prices, res.evec0),
                   !.hedge_ratio = res.evec0,
                   !.outcome = "returned"]
    ELSE [s EXCEPT !.portfolio_prices = DotRows(prices, res.evec0),
                   !.notStationary = @ + 1]

\* lines 128-129: the provider's basket becomes the candidate, and the
\* training matrix is the one of the provider's basket
\* a faulty body: the provider is not told the candidate
Candidate_ProviderNotTold(s, ind, port, from) ==
    Evaluate([s EXCEPT !.comb = ind, !.tried = @ + 1],
             TrainSet(port), OracleAnswer(from, port))

Candidate(s, ind, port, from) ==
    Evaluate([s EXCEPT !.comb = ind, !.symbol_list = port, !.tried = @ + 1],
             TrainSet(port), OracleAnswer(from, port))

\* line 127 and the body under it: the next tuple of the generator, or,
\* when there is none, lines 145-146
NextPort(s, ind, from) == Candidate(s, ind, PortOf(ind), from)
\* a faulty loop: when the generator is exhausted the function falls through
\* and returns without a vector
LoopBody_FallsThrough(s, from) ==
    IF ~HasNextCombo(s.comb, NumTickers, BasketSize)
    THEN [s EXCEPT !.outcome = "returned"]
    ELSE NextPort(s, NextCombo(s.comb, NumTickers, BasketSize), from)
LoopBody(s, from) ==
    IF ~HasNextCombo(s.comb, NumTickers, BasketSize)
    THEN [s EXCEPT !.outcome = "exited"]
    ELSE NextPort(s, NextCombo(s.comb, NumTickers, BasketSize), from)

\* the for statement, run through at most n passes of its head, as long as
\* the search has neither returned nor exited
RECURSIVE Loop(_, _, _)
Loop(s, n, from) ==
    IF s.outcome # "searching" \/ n = 0 THEN s
    ELSE IF n = 1 THEN LoopBody(s, from)
    ELSE Loop(Loop(s, n \div 2, from), n - (n \div 2), from)

\* _find_stationary_portfolio, lines 126-146, called with the strategy's
\* series and the provider's basket as they are.  The for statement comes
\* to its head once for every tuple there is and once more, to find the
\* generator exhausted.
\* a faulty search: the generator is not started afresh, it goes on after
\* the basket that is active
FindStationaryPortfolio_GoesOn(series, basket, from) ==
    Loop([outcome |-> "searching",
          comb |-> IF Len(basket) = BasketSize THEN basket ELSE <<>>,
          tried |-> 0, notStationary |-> 0, failedSeen |-> FALSE,
          portfolio_prices |-> series, symbol_list |-> basket,
          hedge_ratio |-> <<>>],
         NumCombos + 1, from)

FindStationaryPortfolio(series, basket, from) ==
    Loop([outcome |-> "searching", comb |-> <<>>, tried |-> 0,
          notStationary |-> 0, failedSeen |-> FALSE,
          portfolio_prices |-> series, symbol_list |-> basket,
          hedge_ratio |-> <<>>],
         NumCombos + 1, from)

\* where the program is once the search has come back, if it has
AfterSearch(s) ==
    IF s.outcome = "returned" THEN "idle"
    ELSE IF s.outcome = "exited" THEN "exited"
    ELSE "searching"

\* thresholds a strategy is configured with, in tenths
Thresholds == {5, 10}

\* the strategy after __init__ (lines 107-117), or the exit of its search
Init ==
    /\ enter \in Thresholds
    /\ exit \in Thresholds
    /\ enter # exit
    /\ current_date = 0
    /\ long = FALSE
    /\ short = FALSE
    /\ events = <<>>
    /\ basketBefore = <<>>
    /\ sinceSelect = 0
    /\ selCalls = 0
    /\ nUpdates = 0
    /\ rule = "none"
    /\ zlog = <<>>
    /\ strategy = Bollinger
    /\ event_type = "none"
    /\ bars = <<>>
    /\ fed = <<>>
    /\ entered = FALSE
    /\ bought = <<>>
    /\ longs = <<>>
    /\ table \in AcceptFroms
    /\ \E s \in {FindStationaryPortfolio(<<>>, SortOldest, table)} :
          /\ pc = AfterSearch(s)
          /\ hedge_ratio = s.hedge_ratio
          /\ portfolio_prices = s.portfolio_prices
          /\ symbol_list = s.symbol_list
          /\ comb = s.comb
          /\ tried = s.tried
          /\ notStationary = s.notStationary
          /\ failedSeen = s.failedSeen

(* ------------------------ mean-reversion engine ------------------------ *)
\* a faulty ratio: the dividend is left out
AdjRatio_SplitOnly(bar) == bar.Split

\* lines 153-155: adj_ratio = Split * (Close + Dividend) / Close
AdjRatio(bar) == (bar.Split * (bar.Close + bar.Dividend)) \div bar.Close

\* line 156 over the loop of line 150: every member's entry is multiplied
\* in place by its bar's ratio
AdjustHedgeRatio(basket, feed, hr) ==
    [i \in 1..Len(basket) |-> hr[i] * AdjRatio(feed[basket[i]])]

\* lines 157-158: the members' closes, weighted by the adjusted ratios
CurrentPortfolioPrice(basket, feed, hr) ==
    Dot([i \in 1..Len(basket) |-> feed[basket[i]].Close],
        AdjustHedgeRatio(basket, feed, hr))

\* lines 160-169: one SignalEvent per member of bars.symbol_list, in order
\* a faulty batch: every record has the strength of the first member
OrderPortfolio_FirstStrength(basket, feed, hr, direction) ==
    [i \in 1..Len(basket) |->
        [symbol |-> feed[basket[i]].Symbol, date |-> feed[basket[i]].Date,
         direction |-> direction, strength |-> hr[1]]]

\* a faulty batch: the last member of the basket gets no record
OrderPortfolio_DropsLast(basket, feed, hr, direction) ==
    [i \in 1..(Len(basket) - 1) |->
        [symbol |-> feed[basket[i]].Symbol, date |-> feed[basket[i]].Date,
         direction |-> direction, strength |-> hr[i]]]
OrderPortfolio(basket, feed, hr, direction) ==
    [i \in 1..Len(basket) |->
        [symbol |-> feed[basket[i]].Symbol, date |-> feed[basket[i]].Date,
         direction |-> direction, strength |-> hr[i]]]

\* a faulty chain: the test for a SHORT entry comes first
Decide_ShortFirst(lg, sh, geExit, leNegExit, geEnter, leNegEnter) ==
    IF ~sh /\ geEnter
    THEN [rule |-> "c", direction |-> "SHORT", long |-> lg, short |-> TRUE]
    ELSE IF lg /\ geExit
    THEN [rule |-> "a", direction |-> "EXIT", long |-> FALSE, short |-> sh]
    ELSE IF sh /\ leNegExit
    THEN [rule |-> "b", direction |-> "EXIT", long |-> lg, short |-> FALSE]
    ELSE IF ~lg /\ leNegEnter
    THEN [rule |-> "d", direction |-> "LONG", long |-> TRUE, short |-> sh]
    ELSE [rule |-> "e", direction |-> "NONE", long |-> lg, short |-> sh]

\* a faulty chain: the two entry tests come before the two exit tests
Decide_EntriesFirst(lg, sh, geExit, leNegExit, geEnter, leNegEnter) ==
    IF ~sh /\ geEnter
    THEN [rule |-> "c", direction |-> "SHORT", long |-> lg, short |-> TRUE]
    ELSE IF ~lg /\ leNegEnter
    THEN [rule |-> "d", direction |-> "LONG", long |-> TRUE, short |-> sh]
    ELSE IF lg /\ geExit
    THEN [rule |-> "a", direction |-> "EXIT", long |-> FALSE, short |-> sh]
    ELSE IF sh /\ leNegExit
    THEN [rule |-> "b", direction |-> "EXIT", long |-> lg, short |-> FALSE]
    ELSE [rule |-> "e", direction |-> "NONE", long |-> lg, short |-> sh]

\* lines 189-200: the if/elif chain over the two flags, given which of the
\* four comparisons of the z-score hold
Decide(lg, sh, geExit, leNegExit, geEnter, leNegEnter) ==
    IF lg /\ geExit
    THEN [rule |-> "a", direction |-> "EXIT", long |-> FALSE, short |-> sh]
    ELSE IF sh /\ leNegExit
    THEN [rule |-> "b", direction |-> "EXIT", long |-> lg, short |-> FALSE]
    ELSE IF ~sh /\ geEnter
    THEN [rule |-> "c", direction |-> "SHORT", long |-> lg, short |-> TRUE]
    ELSE IF ~lg /\ leNegEnter
    THEN [rule |-> "d", direction |-> "LONG", long |-> TRUE, short |-> sh]
    ELSE [rule |-> "e", direction |-> "NONE", long |-> lg, short |-> sh]

\* whether an entry batch is open once a batch of a directive was put
Entered(was, direction) ==
    IF direction = "NONE" THEN was ELSE direction # "EXIT"

\* lines 183-200: the series passed the stationarity test
Stationary(feed, hr, series, price) ==
    /\ selCalls' = 0
    /\ UNCHANGED <<symbol_list, comb, tried, notStationary, failedSeen, table>>
    /\ IF StdevRaises(series)
       THEN \* statistics.stdev raises StatisticsError
            /\ pc' = "crashed"
            /\ rule' = "raised"
            /\ events' = <<>>
            /\ UNCHANGED <<long, short, entered>>
       ELSE IF ZeroStd(series)
       THEN \* 0/0: ZeroDivisionError on Python floats; nan, which makes
            \* every comparison false, on numpy floats
            /\ \/ pc' = "crashed" /\ rule' = "raised"
               \/ pc' = "idle" /\ rule' = "nan"
            /\ events' = <<>>
            /\ UNCHANGED <<long, short, entered>>
       ELSE \E d \in {Decide(long, short,
                               ZScoreGe(series, price, exit),
                               ZScoreLe(series, price, exit),
                               ZScoreGe(series, price, enter),
                               ZScoreLe(series, price, enter))} :
               /\ pc' = "idle"
               /\ rule' = d.rule
               /\ long' = d.long
               /\ short' = d.short
               /\ events' = IF d.direction = "NONE" THEN <<>>
                            ELSE OrderPortfolio(symbol_list, feed, hr,
                                                d.direction)
               /\ entered' = Entered(entered, d.direction)

\* lines 201-203: the series failed the test; the records are put, then the
\* search runs, reading the oracle table `from`
Decohered(feed, hr, series, from) ==
    \E s \in {FindStationaryPortfolio(series, symbol_list, from)} :
       /\ events' = OrderPortfolio(symbol_list, feed, hr, "EXIT")
       /\ entered' = Entered(entered, "EXIT")
       /\ rule' = "decohered"
       /\ selCalls' = 1
       /\ table' = from
       /\ symbol_list' = s.symbol_list
       /\ portfolio_prices' = s.portfolio_prices
       /\ comb' = s.comb
       /\ tried' = s.tried
       /\ notStationary' = s.notStationary
       /\ failedSeen' = s.failedSeen
       /\ UNCHANGED <<long, short>>
       /\ pc' = AfterSearch(s)
       /\ IF s.outcome = "returned"
          THEN /\ hedge_ratio' = s.hedge_ratio
               /\ sinceSelect' = 0
               /\ fed' = <<>>
          ELSE /\ hedge_ratio' = hr
               /\ sinceSelect' = sinceSelect + 1
               /\ fed' = Append(fed, feed)

\* calculate_signals on a MARKET event, lines 180-203
MarketUpdate(feed, stationary, from) ==
    /\ pc = "idle"
    /\ nUpdates < MaxUpdates
    /\ \E hr \in {AdjustHedgeRatio(symbol_list, feed, hedge_ratio)},
          price \in {CurrentPortfolioPrice(symbol_list, feed, hedge_ratio)} :
        \E series \in {Append(portfolio_prices, price)} :
          /\ nUpdates' = nUpdates + 1
          /\ bars' = feed
          /\ basketBefore' = symbol_list
          /\ current_date' = feed[symbol_list[Len(symbol_list)]].Date
          /\ IF stationary
             THEN /\ hedge_ratio' = hr
                  /\ portfolio_prices' = series
                  /\ sinceSelect' = sinceSelect + 1
                  /\ fed' = Append(fed, feed)
                  /\ Stationary(feed, hr, series, price)
             ELSE Decohered(feed, hr, series, from)
    /\ UNCHANGED <<enter, exit, zlog, strategy, bought, longs>>

\* a faulty test: every event is taken for a market update
IsMarket_AnyEvent(type) == TRUE

\* lines 82 and 180: event.type == 'MARKET'
IsMarket(type) == type = "MARKET"

\* the implicit else of lines 82 and 180: the call returns, nothing is put
\* and no field is written
Ignore ==
    /\ pc = "idle"
    /\ events' = <<>>
    /\ rule' = "none"
    /\ selCalls' = 0
    /\ UNCHANGED <<pc, enter, exit, current_date, hedge_ratio, long, short,
                   portfolio_prices, symbol_list, comb, tried, notStationary,
                   failedSeen, table, basketBefore, sinceSelect, nUpdates,
                   zlog, strategy, bars, fed, entered, bought, longs>>

\* calculate_signals(event), lines 171-203
CalculateSignals(type, feed, stationary, from) ==
    /\ event_type' = type
    /\ IF IsMarket(type)
       THEN MarketUpdate(feed, stationary, from)
       ELSE Ignore

\* a backtest that sends the strategy MARKET events only: the series passes
\* the stationarity test, or fails it and the search that follows reads
\* some oracle table
Next ==
    \E feed \in Feeds(current_date + 1) :
        \/ CalculateSignals("MARKET", feed, TRUE, 0)
        \/ \E from \in AcceptFroms : CalculateSignals("MARKET", feed, FALSE, from)

Spec == Init /\ [][Next]_vars

(* ------------------- the state machine on its own --------------------- *)
\* The engine with is_stationary stubbed to pass and the z-score of line 186
\* stubbed to a given value z, in tenths: lines 189-200.
Position(lg, sh) ==
    IF lg /\ sh THEN "Both"
    ELSE IF lg THEN "Long"
    ELSE IF sh THEN "Short"
    ELSE "Flat"

ZScores == {-21, 0, 3, 18, 25}
ZThresholds == {5, 20}

ZUpdate(z, feed) ==
    /\ pc = "idle"
    /\ Len(zlog) < MaxZSteps
    /\ hedge_ratio' = AdjustHedgeRatio(symbol_list, feed, hedge_ratio)
    /\ portfolio_prices' =
           Append(portfolio_prices,
                  CurrentPortfolioPrice(symbol_list, feed, hedge_ratio))
    /\ \E d \in {Decide(long, short, z >= exit, z <= -exit,
                        z >= enter, z <= -enter)} :
         /\ rule' = d.rule
         /\ long' = d.long
         /\ short' = d.short
         /\ events' = IF d.direction = "NONE" THEN <<>>
                      ELSE OrderPortfolio(symbol_list, feed, hedge_ratio',
                                          d.direction)
         /\ zlog' = Append(zlog, [z |-> z, batch |-> d.direction,
                                  position |-> Position(d.long, d.short)])
         /\ entered' = Entered(entered, d.direction)
    /\ event_type' = "MARKET"
    /\ bars' = feed
    /\ fed' = Append(fed, feed)
    /\ current_date' = feed[symbol_list[Len(symbol_list)]].Date
    /\ basketBefore' = symbol_list
    /\ nUpdates' = nUpdates + 1
    /\ sinceSelect' = sinceSelect + 1
    /\ UNCHANGED <<pc, enter, exit, symbol_list, comb, tried, notStationary,
                   failedSeen, table, selCalls, strategy, bought, longs>>

ZInit ==
    /\ enter \in ZThresholds
    /\ exit \in ZThresholds
    /\ enter # exit
    /\ current_date = 0
    /\ long = FALSE
    /\ short = FALSE
    /\ events = <<>>
    /\ basketBefore = <<>>
    /\ sinceSelect = 0
    /\ selCalls = 0
    /\ nUpdates = 0
    /\ rule = "none"
    /\ zlog = <<>>
    /\ strategy = Bollinger
    /\ event_type = "none"
    /\ bars = <<>>
    /\ fed = <<>>
    /\ entered = FALSE
    /\ bought = <<>>
    /\ longs = <<>>
    /\ table = 0
    /\ \E s \in {FindStationaryPortfolio(<<>>, SortOldest, table)} :
          /\ pc = "idle"
          /\ hedge_ratio = s.hedge_ratio
          /\ portfolio_prices = s.portfolio_prices
          /\ symbol_list = s.symbol_list
          /\ comb = s.comb
          /\ tried = s.tried
          /\ notStationary = s.notStationary
          /\ failedSeen = s.failedSeen

ZNext ==
    \E z \in ZScores :
        ZUpdate(z, [s \in 1..NumTickers |-> Bar(s, current_date + 1, 2, 1, 0)])

ZSpec == ZInit /\ [][ZNext]_vars

(* ------------------------- BuyAndHoldStrategy -------------------------- *)
\* bars.symbol_list of the provider a BuyAndHoldStrategy is built on
BuyHoldSymbols == <<1, 2>>

\* what a list of latest bars holds where there is no bar: None, or {}
None == [None |-> TRUE]
EmptyDict == <<>>

\* get_latest_bars(s, N=1) on date d: an empty list while the provider has
\* no bar of s, a list of one placeholder, or a list of one bar
AnswerKinds == {"[]", "[None]", "[{}]", "[bar]"}
LatestBars(kind, s, d) ==
    IF kind = "[]" THEN <<>>
    ELSE IF kind = "[None]" THEN <<None>>
    ELSE IF kind = "[{}]" THEN <<EmptyDict>>
    ELSE <<Bar(s, d, 2, 1, 0)>>
Symbols(list) == {list[i] : i \in 1..Len(list)}
Answers(list, d) ==
    {[s \in Symbols(list) |-> LatestBars(k[s], s, d)] :
        k \in [Symbols(list) -> AnswerKinds]}

\* lines 62-70
CalculateInitialBought(list) == [s \in Symbols(list) |-> FALSE]

\* line 85
IsBar(bar) == bar # None /\ bar # EmptyDict

\* SignalEvent(symbol, date, 'LONG'), lines 88-89; event.py gives the
\* strength its default, 1.0
LongSignal(bar) ==
    [symbol |-> bar.Symbol, date |-> bar.Date, direction |-> "LONG",
     strength |-> 1]

\* lines 84-91 for the symbol s; st holds self.bought, the records put by
\* this call, and whether an exception has left it
BuyHoldSymbol(st, s, answer) ==
    IF answer = <<>>
    THEN \* [0] of an empty list: IndexError
         [st EXCEPT !.raised = TRUE]
    ELSE IF IsBar(answer[1]) /\ ~st.bought[s]
    THEN [st EXCEPT !.events = Append(@, LongSignal(answer[1])),
                    !.bought[s] = TRUE]
    ELSE st

\* line 83: the loop, from the i-th symbol on
RECURSIVE BuyHoldLoop(_, _, _, _)
BuyHoldLoop(st, list, answers, i) ==
    IF i > Len(list) \/ st.raised THEN st
    ELSE BuyHoldLoop(BuyHoldSymbol(st, list[i], answers[list[i]]),
                     list, answers, i + 1)

\* records among evs that are for the symbol s
RecordsFor(evs, s) == Cardinality({i \in 1..Len(evs) : evs[i].symbol = s})

\* calculate_signals on a MARKET event, lines 83-91
BuyHoldUpdate(answers) ==
    /\ pc = "idle"
    /\ nUpdates < MaxBuyHoldUpdates
    /\ \E st \in {BuyHoldLoop([bought |-> bought, events |-> <<>>,
                               raised |-> FALSE],
                              symbol_list, answers, 1)} :
          /\ bought' = st.bought
          /\ events' = st.events
          /\ pc' = IF st.raised THEN "crashed" ELSE "idle"
          /\ longs' = [s \in DOMAIN longs |->
                          longs[s] + RecordsFor(st.events, s)]
    /\ bars' = answers
    /\ nUpdates' = nUpdates + 1
    /\ UNCHANGED <<enter, exit, current_date, hedge_ratio, long, short,
                   portfolio_prices, symbol_list, comb, tried, notStationary,
                   failedSeen, table, basketBefore, sinceSelect, selCalls,
                   rule, zlog, strategy, fed, entered>>

\* calculate_signals(event), lines 72-91
BuyHoldCalculateSignals(type, answers) ==
    /\ event_type' = type
    /\ IF IsMarket(type)
       THEN BuyHoldUpdate(answers)
       ELSE Ignore

\* events a strategy can be called with
EventTypes == {"MARKET", "SIGNAL"}

\* the strategy after __init__, lines 55-60; the fields of the other
\* strategy do not exist and keep a fixed value
BInit ==
    /\ strategy = BuyAndHold
    /\ pc = "idle"
    /\ symbol_list = BuyHoldSymbols
    /\ bought = CalculateInitialBought(BuyHoldSymbols)
    /\ longs = [s \in Symbols(BuyHoldSymbols) |-> 0]
    /\ events = <<>>
    /\ bars = <<>>
    /\ event_type = "none"
    /\ nUpdates = 0
    /\ enter = 0
    /\ exit = 0
    /\ current_date = 0
    /\ hedge_ratio = <<>>
    /\ long = FALSE
    /\ short = FALSE
    /\ portfolio_prices = <<>>
    /\ comb = <<>>
    /\ tried = 0
    /\ notStationary = 0
    /\ failedSeen = FALSE
    /\ table = 0
    /\ basketBefore = <<>>
    /\ sinceSelect = 0
    /\ selCalls = 0
    /\ rule = "none"
    /\ zlog = <<>>
    /\ fed = <<>>
    /\ entered = FALSE

BNext ==
    \E type \in EventTypes : \E answers \in Answers(symbol_list, nUpdates + 1) :
        BuyHoldCalculateSignals(type, answers)

BSpec == BInit /\ [][BNext]_vars

(* ----------------- either strategy, called with any event -------------- *)
AnyInit == Init \/ BInit

AnyBollinger ==
    /\ strategy = Bollinger
    /\ \E type \in EventTypes : \E feed \in Feeds(current_date + 1) :
          \/ CalculateSignals(type, feed, TRUE, 0)
          \/ \E from \in AcceptFroms : CalculateSignals(type, feed, FALSE, from)

AnyBuyHold ==
    /\ strategy = BuyAndHold
    /\ BNext

AnyNext == AnyBollinger \/ AnyBuyHold

AnySpec == AnyInit /\ [][AnyNext]_vars

(* ------------------------------ claims --------------------------------- *)
\* the directives of the records of the latest update, without repetition
Directives == {events[i].direction : i \in 1..Len(events)}

\* The outcome the documented state machine prescribes for a position and a
\* z-score, of which the four comparisons are given.
Prescribed(pos, geExit, leNegExit, geEnter, leNegEnter) ==
    IF pos = "Long" /\ geExit THEN [batch |-> {"EXIT"}, position |-> "Flat"]
    ELSE IF pos = "Short" /\ leNegExit
    THEN [batch |-> {"EXIT"}, position |-> "Flat"]
    ELSE IF pos # "Short" /\ geEnter
    THEN [batch |-> {"SHORT"}, position |-> "Short"]
    ELSE IF pos # "Long" /\ leNegEnter
    THEN [batch |-> {"LONG"}, position |-> "Long"]
    ELSE [batch |-> {}, position |-> pos]

\* the series and the price of the update that has just been handled
LastPrice(series) == series[Len(series)]

\* C1: an update that passes the stationarity guard with a defined z-score
\* applies the first matching rule of (a)-(e) and no other: the batch and
\* the position after it are the ones that rule prescribes.
C1_FirstMatchingRule ==
    [][(pc = "idle" /\ pc' = "idle" /\ nUpdates' = nUpdates + 1
          /\ rule' \in {"a", "b", "c", "d", "e"})
       => LET series == portfolio_prices'
              x == LastPrice(portfolio_prices')
              want == Prescribed(Position(long, short),
                                 ZScoreGe(series, x, exit),
                                 ZScoreLe(series, x, exit),
                                 ZScoreGe(series, x, enter),
                                 ZScoreLe(series, x, enter))
          IN /\ ZDefined(series)
             /\ Directives' = want.batch
             /\ Position(long', short') = want.position]_vars

\* C2: the flags long and short are never both true.
C2_NeverLongAndShort == ~(long /\ short)

\* C3: once an update that made the series fail the stationarity test has
\* been handled, the position is Flat.
C3_FlatAfterDecoherence ==
    (pc = "idle" /\ rule = "decohered") => Position(long, short) = "Flat"

\* C4: an update that makes the series fail the stationarity test puts
\* exactly one EXIT record for each member of the basket that was current
\* before it, in basket order, and nothing else; the selector is called
\* once, and the records are those of the basket before the selector
\* changed it.
C4_DecoherenceExitsOldBasket ==
    rule = "decohered" =>
        /\ Len(events) = Len(basketBefore)
        /\ \A i \in 1..Len(events) :
              /\ events[i].symbol = basketBefore[i]
              /\ events[i].direction = "EXIT"
              /\ events[i].date = current_date
        /\ selCalls = 1
C4_Witness ==
    /\ rule = "decohered"
    /\ pc = "idle"
    /\ symbol_list # basketBefore
    /\ long

ZsOf(k) == [i \in 1..k |-> zlog[i].z]
BatchesOf(k) == [i \in 1..k |-> zlog[i].batch]
PositionsOf(k) == [i \in 1..k |-> zlog[i].position]

\* C6: with the entry threshold 2.0 and the exit threshold 0.5, from Flat,
\* the z-scores 0.0, 2.5, 1.8, 0.3, -2.1 give the positions Flat, Short,
\* Short, Short, Flat and the batches none, SHORT, none, none, EXIT.
C6_Hysteresis ==
    (enter = 20 /\ exit = 5 /\ Len(zlog) >= 5
       /\ ZsOf(5) = <<0, 25, 18, 3, -21>>)
    => /\ PositionsOf(5) = <<"Flat", "Short", "Short", "Short", "Flat">>
       /\ BatchesOf(5) = <<"NONE", "SHORT", "NONE", "NONE", "EXIT">>
       /\ (Len(zlog) = 5 =>
              /\ Directives = {"EXIT"}
              /\ Len(events) = Len(symbol_list)
              /\ Position(long, short) = "Flat")
C6_Witness ==
    /\ enter = 20
    /\ exit = 5
    /\ zlog # <<>>
    /\ ZsOf(Len(zlog)) = <<0, 25, 18, 3, -21>>

\* what the oracle of the latest search answers for the candidate of a
\* tuple, and the three conditions on that answer, the statistics being
\* compared to the third, which is the last, critical value
Answer(c) == OracleAnswer(table, PortOf(c))
Failing(c) == Answer(c).answer = LinAlgError
Acceptable(c) ==
    /\ ~Failing(c)
    /\ Answer(c).lr1[1] >= Answer(c).cvt[1][3]
    /\ Answer(c).lr2[1] >= Answer(c).cvm[1][3]
    /\ Answer(c).stationary

\* C7: a vector is returned only for a candidate whose two leading
\* statistics reach the critical values of the configured level and whose
\* weighted training series passed the stationarity test; the vector is the
\* oracle's for that candidate and has one entry for each of its members.
C7_AcceptedMeetsAllThree ==
    pc = "idle" =>
        /\ symbol_list = PortOf(comb)
        /\ Acceptable(comb)
        /\ Len(hedge_ratio) = Len(symbol_list)
        /\ Len(symbol_list) = BasketSize
        /\ sinceSelect = 0 => hedge_ratio = Answer(comb).evec0
C7_Witness ==
    /\ pc = "idle"
    /\ sinceSelect = 0
    /\ notStationary >= 2
    /\ nUpdates >= 1

\* C8: the accepted candidate is the first acceptable one in the
\* lexicographic order of the tuples of the ticker list: every earlier one
\* was evaluated and rejected or failed, and none after it was requested.
C8_FirstAcceptableInOrder ==
    pc = "idle" =>
        /\ comb \in AllCombos
        /\ symbol_list = PortOf(comb)
        /\ Acceptable(comb)
        /\ \A c \in AllCombos : LexLess(c, comb) => ~Acceptable(c)
        /\ tried = LexRank(comb)
        /\ notStationary = tried - 1
C8_Witness ==
    /\ pc = "idle"
    /\ tried >= 3
    /\ tried < NumCombos

\* C9: when no candidate is acceptable the search ends, after it has
\* requested each candidate once, in the fatal outcome: it does not go on
\* for ever, no vector is returned, and no further update is handled.
C9_ExhaustionIsFatal ==
    /\ pc # "searching"
    /\ (\A c \in AllCombos : ~Acceptable(c)) =>
          /\ pc = "exited"
          /\ tried = NumCombos
          /\ notStationary = NumCombos
          /\ LexRank(comb) = NumCombos
          /\ ~ENABLED Next
C9_Witness ==
    /\ pc = "exited"
    /\ nUpdates >= 1
    /\ tried = NumCombos

\* the candidates the latest search has requested
Requested(c) == c = comb \/ LexLess(c, comb)

\* C10: a numerical failure of the oracle on a candidate is handled where
\* it happens: that candidate is not accepted, the search goes on with the
\* next one, and an acceptable candidate after it is still returned.
C10_FailureIsLocal ==
    /\ failedSeen <=> \E c \in AllCombos : Requested(c) /\ Failing(c)
    /\ failedSeen =>
          /\ pc # "exited" => (~Failing(comb) /\ Acceptable(comb))
          /\ pc = "exited" => tried = NumCombos
          /\ (\E c \in AllCombos : Acceptable(c)) => pc # "exited"
          /\ tried >= 2
C10_Witness ==
    /\ pc = "idle"
    /\ failedSeen
    /\ nUpdates >= 1
    /\ sinceSelect = 0

\* a market update of either strategy has just been begun
UpdateBegun == event_type' = "MARKET" /\ nUpdates' = nUpdates + 1

\* the provider's answer holds a bar
HasValidBar(answer) ==
    answer # <<>> /\ answer[1] # None /\ answer[1] # EmptyDict

\* C11: BuyAndHoldStrategy puts at most one LONG record for an instrument,
\* and puts exactly one in the first market update in which the instrument
\* has a valid bar; the instrument's bought flag is false before that
\* record and true from then on.
C11_OneLongAtFirstValidBar ==
    [][UpdateBegun =>
         \A s \in Symbols(symbol_list) :
            /\ (HasValidBar(bars'[s]) /\ ~bought[s]) =>
                  (RecordsFor(events', s) = 1 /\ bought'[s])
            /\ (~HasValidBar(bars'[s]) \/ bought[s]) =>
                  (RecordsFor(events', s) = 0 /\ bought'[s] = bought[s])
            /\ longs'[s] <= 1
            /\ bought'[s] <=> longs'[s] = 1]_vars

\* C12: a call of calculate_signals, of either strategy, with an event that
\* is not a market update puts no record and leaves the bought flags, the
\* position flags, the hedge-ratio vector, the series, the current date and
\* the active basket as they were.
C12_OtherEventsIgnored ==
    [][event_type' # "MARKET" =>
         /\ events' = <<>>
         /\ UNCHANGED <<bought, long, short, hedge_ratio, portfolio_prices,
                        current_date, symbol_list>>
         /\ UNCHANGED <<pc, nUpdates, bars, fed, longs, comb, table>>]_vars
C12_Witness ==
    /\ event_type = "SIGNAL"
    /\ strategy = Bollinger
    /\ long
    /\ sinceSelect = 2

C14_EmptyResultSkipped ==
    [][(UpdateBegun /\ \E s \in Symbols(symbol_list) : bars'[s] = <<>>)
       => /\ pc' = "idle"
          /\ \A s \in Symbols(symbol_list) :
                /\ bars'[s] = <<>> =>
                      (RecordsFor(events', s) = 0 /\ bought'[s] = bought[s])
                /\ (HasValidBar(bars'[s]) /\ ~bought[s]) =>
                      (RecordsFor(events', s) = 1 /\ bought'[s])]_vars

\* numerator and denominator of the factor of a bar, and their products
\* over the bars a ticker t had in a sequence of feeds
Numer(bar) == bar.Split * (bar.Close + bar.Dividend)
Denom(bar) == bar.Close
RECURSIVE NumerProduct(_, _)
NumerProduct(feeds, t) ==
    IF feeds = <<>> THEN 1
    ELSE Numer(feeds[1][t]) * NumerProduct(Tail(feeds), t)
RECURSIVE DenomProduct(_, _)
DenomProduct(feeds, t) ==
    IF feeds = <<>> THEN 1
    ELSE Denom(feeds[1][t]) * DenomProduct(Tail(feeds), t)

\* C15: every market update multiplies each member's stored hedge-ratio
\* entry once by split * (close + dividend) / close of that member's bar,
\* with or without a batch, and the factors compound: after the updates
\* since the selection the entry is the returned weight times the product
\* of their factors.
C15_HedgeRatioCompounds ==
    (strategy = Bollinger /\ pc \in {"idle", "crashed"}) =>
        /\ Len(fed) = sinceSelect
        /\ \A i \in 1..Len(symbol_list) :
              hedge_ratio[i] * DenomProduct(fed, symbol_list[i])
                 = Answer(comb).evec0[i] * NumerProduct(fed, symbol_list[i])
C15_Witness ==
    /\ pc = "idle"
    /\ Len(fed) = 2
    /\ fed[1][symbol_list[1]].Split = 2
    /\ fed[2][symbol_list[1]].Dividend = 2
    /\ hedge_ratio[1] = 4 * Answer(comb).evec0[1]
    /\ hedge_ratio[2] = Answer(comb).evec0[2]

\* a second run of the search, by a strategy that is being constructed on
\* the same universe, with the training matrices and the oracle answers of
\* the latest search
SecondRun == FindStationaryPortfolio(<<>>, SortOldest, table)

C17_BatchPerMemberInOrder ==
    [][(UpdateBegun /\ strategy = Bollinger /\ events' # <<>>) =>
         /\ Len(events') = Len(symbol_list)
         /\ \E dir \in {"LONG", "SHORT", "EXIT"} : Directives' = {dir}
         /\ \A i \in 1..Len(symbol_list) :
               /\ events'[i].symbol = symbol_list[i]
               /\ events'[i].date = bars'[symbol_list[i]].Date
               /\ events'[i].strength * Denom(bars'[symbol_list[i]])
                     = hedge_ratio[i] * Numer(bars'[symbol_list[i]])
         /\ rule' # "decohered" =>
               \A i \in 1..Len(symbol_list) :
                  events'[i].strength = hedge_ratio'[i]]_vars
C17_Witness ==
    /\ rule \in {"a", "b", "c", "d"}
    /\ events # <<>>
    /\ sinceSelect = 2
    /\ events[1].strength = 2 * Answer(comb).evec0[1]
    /\ events[2].strength = Answer(comb).evec0[2]

\* C18: with enter >= exit >= 0, two entry batches are separated by an EXIT
\* batch, and the position does not go from Long to Short or from Short to
\* Long in one update.
C18_EntriesSeparatedByExit ==
    [][(UpdateBegun /\ enter >= exit /\ exit >= 0) =>
         /\ Directives' \cap {"LONG", "SHORT"} # {} => ~entered
         /\ ~(Position(long, short) = "Long"
                /\ Position(long', short') = "Short")
         /\ ~(Position(long, short) = "Short"
                /\ Position(long', short') = "Long")]_vars
C18_Witness ==
    /\ enter >= exit
    /\ rule = "a"
    /\ ZScoreGe(portfolio_prices, LastPrice(portfolio_prices), enter)

\* C19: an EXIT batch of rule (a) or (b) is put only for a basket for which
\* an entry batch was put since it was selected, with no EXIT batch since.
C19_ThresholdExitAfterEntry ==
    [][(UpdateBegun /\ rule' \in {"a", "b"}) => entered]_vars

\* C20: whenever a market update can be handled, the provider's active
\* basket is the candidate whose vector the search returned last, not one
\* it rejected or that failed, and the stored vector has one entry for each
\* member of that basket.
C20_ActiveBasketIsTheAccepted ==
    (strategy = Bollinger /\ pc = "idle") =>
        /\ symbol_list = PortOf(comb)
        /\ \A c \in AllCombos :
              (Requested(c) /\ ~Acceptable(c)) => symbol_list # PortOf(c)
        /\ DOMAIN hedge_ratio = DOMAIN symbol_list
        /\ sinceSelect = 0 =>
              hedge_ratio = OracleAnswer(table, symbol_list).evec0
C20_Witness ==
    /\ pc = "idle"
    /\ rule = "decohered"
    /\ nUpdates = 3
    /\ tried = 2
    /\ basketBefore # symbol_list

====
